---------------------------- MODULE Spec2Model ----------------------------
(***************************************************************************)
(* Model of search::memoryindex::MemoryIndex (memory_index.cpp): the       *)
(* double-buffered document inverter pair, the commit/flip protocol over   *)
(* the two sequenced executors, the generation-protected field indexes     *)
(* read by blueprints, the frozen flag and schema pruning.                 *)
(*                                                                         *)
(* insertDocument / removeDocument / commit / freeze are issued by one     *)
(* writer (the index assumes these calls are serialized); executor tasks,  *)
(* blueprint construction and pruneRemovedFields interleave freely.        *)
(*                                                                         *)
(* Specifications: Spec (the write path), SpecQuery (queries against the   *)
(* write path), SpecPrune (schema pruning against queries), SpecHidden     *)
(* (queries on an index with postings and hidden fields), SpecAll (the     *)
(* write path and pruning), SpecLife (the write path up to the             *)
(* destructor, with fair executors).                                       *)
(***************************************************************************)
EXTENDS Integers, Sequences, FiniteSets, TLC

(* ------------------------------ bounds --------------------------------- *)

\* largest document id a caller passes (id 0 is reserved)
MaxDocId == 2
\* number of insertDocument/removeDocument calls in a run
MaxOps == 2
\* number of commit calls in a run
MaxCommits == 2
\* number of blueprints alive at the same time
MaxBlueprints == 2
\* number of pruneRemovedFields calls in a run
MaxPrunes == 2

Docs == 1..MaxDocId
\* index fields of the schema the index was built with, by field id
Fields == {1, 2}
\* Schema::UNKNOWN_FIELD_ID (no field id), returned for a name that is no index field
UNKNOWN_FIELD_ID == -1
\* field names a query may ask for: the schema's fields and one unknown name
FieldNames == Fields \cup {UNKNOWN_FIELD_ID}
Terms == {"a", "b"}
Slots == 1..MaxBlueprints
OpIds == 1..MaxOps

\* a document: the terms of each field
Document(t1, t2) == (1 :> t1) @@ (2 :> t2)
Documents == {Document({"a"}, {"b"}), Document({"a", "b"}, {})}
\* no document: every field is empty
NoDocument == [f \in Fields |-> {}]

VARIABLES
    frozen,        \* _frozen
    maxDocId,      \* _maxDocId
    numDocs,       \* _numDocs
    indexedDocs,   \* _indexedDocs
    inverter,      \* _inverter: 0 when it points at _inverter0, 1 at _inverter1
    inverters,     \* the staged contents of _inverter0 and _inverter1, per field
    invertThreads, \* _invertThreads: the queued invert-stage tasks, per key (field)
    pushThreads,   \* _pushThreads: the queued push-stage tasks, per key (field)
    fieldIndexes,  \* _fieldIndexes: one field index per field
    hiddenFields,  \* _hiddenFields
    prunedSchema,  \* _prunedSchema: a set of fields, or NoSchema
    lock,          \* _lock: TRUE while a LockGuard holds it
    pruneI,        \* pruneRemovedFields: the field its loop is at, 0 outside the loop
    pruneCount,    \* number of pruneRemovedFields calls made
    prunedTo,      \* history: the original schema intersected with every schema passed
    blueprints,    \* the blueprints queries hold
    pc,            \* where the writer is inside commit() or the destructor, "idle" outside
    onWriteDone,   \* the references held on the completion token of each commit
    commitCount,   \* number of commit() calls made
    ops,           \* history: the insertDocument/removeDocument calls made
    pushLog,       \* history: for each call and field, the commits that pushed it
    docs,          \* history: each id's document after the accepted calls so far
    snapshots,     \* history: docs as it was when each commit pushed
    frozenAt       \* history: the number of commit() calls made before freeze()

vars == <<frozen, maxDocId, numDocs, indexedDocs, inverter, inverters,
          invertThreads, pushThreads, fieldIndexes, hiddenFields, prunedSchema,
          lock, pruneI, pruneCount, prunedTo,
          blueprints, pc, onWriteDone, commitCount, ops, pushLog, docs, snapshots,
          frozenAt>>

indexVars == <<frozen, maxDocId, numDocs, indexedDocs, inverter>>
pruneVars == <<hiddenFields, prunedSchema, lock, pruneI, pruneCount, prunedTo>>
histVars == <<ops, pushLog, docs, snapshots, frozenAt>>

\* _prunedSchema before the first effective prune: a null pointer
NoSchema == [present |-> FALSE, fields |-> {}]

(* ------------------------- document inverter --------------------------- *)

\* a field inverter with nothing staged
EmptyFieldInverter ==
    [removes |-> {}, adds |-> [d \in Docs |-> {}], ops |-> {}]

\* invert-stage work: stage the field's terms of a document (or its removal);
\* the document's earlier contribution to the staged postings is replaced
InvertField(fi, task) ==
    [removes |-> fi.removes \cup {task.doc},
     adds    |-> [fi.adds EXCEPT ![task.doc] = task.terms],
     ops     |-> fi.ops \cup {task.op}]

\* DocumentInverter::invertDocument: one invert-stage task per field
invertDocument(q, inv, op, docId, doc) ==
    [f \in Fields |->
        Append(q[f], [inv |-> inv, op |-> op, doc |-> docId, terms |-> doc[f]])]

\* DocumentInverter::removeDocument: one tombstone task per field
inverterRemoveDocument(q, inv, op, docId) ==
    [f \in Fields |->
        Append(q[f], [inv |-> inv, op |-> op, doc |-> docId, terms |-> {}])]

\* the token of no commit: a null onWriteDone
NoToken == 0

\* DocumentInverter::pushDocuments for commit k: one push-stage task per
\* field, each holding a reference to the completion token passed
pushDocuments(q, inv, k, token) ==
    [f \in Fields |->
        Append(q[f], [inv |-> inv, commit |-> k, token |-> token, phase |-> "removes"])]

\* the references on the completion tokens after n more are taken on `token`
TokenRefs(token, n) ==
    IF token = NoToken THEN onWriteDone
    ELSE [onWriteDone EXCEPT ![token] = @ + n]

\* ISequencedTaskExecutor::sync returns once no task is queued or running
Synced(q) == \A f \in Fields : q[f] = <<>>

(* ----------------------------- field index ----------------------------- *)

\* posting lists are immutable once written: a change writes a new list
\* under a fresh ref and puts the old one on hold until no generation guard
\* can still reach it; ref 0 is "no posting list"
EmptyFieldIndex ==
    [dict       |-> [t \in Terms |-> 0],
     frozenDict |-> [t \in Terms |-> 0],
     store      |-> [t \in Terms |-> <<>>],
     freed      |-> {},
     hold1      |-> {},
     hold2      |-> {},
     generation |-> 0]

\* whether the ref's backing storage is still allocated
ValidRef(fi, t, ref) == ref = 0 \/ <<t, ref>> \notin fi.freed

\* the posting list a valid ref of term t designates
ReadPosting(fi, t, ref) == IF ref = 0 THEN {} ELSE fi.store[t][ref]

LivePosting(fi, t) == ReadPosting(fi, t, fi.dict[t])

\* FieldIndex::findFrozen: the ref the frozen dictionary holds for the term
findFrozen(fi, t) == fi.frozenDict[t]

\* FieldIndex::takeGenerationGuard: pins the current generation
takeGenerationGuard(fi) == fi.generation

\* make `want` the live posting lists, copy-on-write
WritePostings(fi, want) ==
    LET changed == {t \in Terms : want[t] # LivePosting(fi, t)}
        fresh(t) == Len(fi.store[t]) + 1
    IN  [fi EXCEPT
            !.dict  = [t \in Terms |->
                          IF t \notin changed THEN fi.dict[t]
                          ELSE IF want[t] = {} THEN 0 ELSE fresh(t)],
            !.store = [t \in Terms |->
                          IF t \in changed /\ want[t] # {}
                          THEN Append(fi.store[t], want[t]) ELSE fi.store[t]],
            !.hold1 = fi.hold1 \cup
                          {<<t, fi.dict[t]>> : t \in {u \in changed : fi.dict[u] # 0}}]

\* FieldInverter::applyRemoves: drop the removed documents' postings
applyRemoves(fi, staged) ==
    WritePostings(fi, [t \in Terms |-> LivePosting(fi, t) \ staged.removes])

\* FieldInverter::pushDocuments: add the staged postings
pushFieldDocuments(fi, staged) ==
    WritePostings(fi, [t \in Terms |->
        LivePosting(fi, t) \cup {d \in Docs : t \in staged.adds[d]}])

Min(S) == CHOOSE x \in S : \A y \in S : x <= y

\* FieldIndex::commit: freeze the dictionary, move the held lists to the
\* current generation, bump it, and free what no guard can reach any more
commitFieldIndex(fi, guards) ==
    LET held      == fi.hold2 \cup {<<h[1], h[2], fi.generation>> : h \in fi.hold1}
        newGen    == fi.generation + 1
        firstUsed == Min(guards \cup {newGen})
        free      == {h \in held : h[3] < firstUsed}
        gone      == {<<h[1], h[2]>> : h \in free}
    IN  [fi EXCEPT
            !.frozenDict = fi.dict,
            !.hold1      = {},
            !.hold2      = held \ free,
            !.generation = newGen,
            !.freed      = fi.freed \cup gone,
            !.store      = [t \in Terms |->
                               [r \in DOMAIN fi.store[t] |->
                                   IF <<t, r>> \in gone THEN {} ELSE fi.store[t][r]]]]

(* ------------------------------ blueprints ----------------------------- *)

NoBlueprint ==
    [state |-> "none", field |-> 0, term |-> "", gen |-> -1, ref |-> 0,
     at |-> 0, expect |-> {}, hits |-> {}, raced |-> FALSE, stale |-> FALSE]

\* the generations pinned by guards on field f
Guards(f) ==
    {blueprints[s].gen : s \in {x \in Slots : /\ blueprints[x].state = "built"
                                              /\ blueprints[x].field = f
                                              /\ blueprints[x].gen >= 0}}

\* Schema::getIndexFieldId
getIndexFieldId(name) == IF name \in Fields THEN name ELSE UNKNOWN_FIELD_ID

\* Schema::intersect, on the index fields
intersect(a, b) == a \cap b

\* the schema in force: _prunedSchema once there is one, else _schema
EffectiveSchema == IF prunedSchema.present THEN prunedSchema.fields ELSE Fields

\* SchemaUtil::IndexIterator wi(*_prunedSchema, i); wi.isValid()
isValid(schema, f) == f \in schema

(* -------------------------------- Init --------------------------------- *)

Init ==
    /\ frozen = FALSE
    /\ maxDocId = 0
    /\ numDocs = 0
    /\ indexedDocs = {}
    /\ inverter = 0
    /\ inverters = [i \in {0, 1} |-> [f \in Fields |-> EmptyFieldInverter]]
    /\ invertThreads = [f \in Fields |-> <<>>]
    /\ pushThreads = [f \in Fields |-> <<>>]
    /\ fieldIndexes = [f \in Fields |-> EmptyFieldIndex]
    /\ hiddenFields = [f \in Fields |-> FALSE]
    /\ prunedSchema = NoSchema
    /\ lock = FALSE
    /\ pruneI = 0
    /\ pruneCount = 0
    /\ prunedTo = Fields
    /\ blueprints = [s \in Slots |-> NoBlueprint]
    /\ pc = "idle"
    /\ onWriteDone = [k \in 1..MaxCommits |-> 0]
    /\ commitCount = 0
    /\ ops = <<>>
    /\ pushLog = [o \in OpIds |-> [f \in Fields |-> <<>>]]
    /\ docs = [d \in Docs |-> NoDocument]
    /\ snapshots = <<>>
    /\ frozenAt = 0

(* ------------------------------- writer -------------------------------- *)

updateMaxDocId(docId) == IF docId > maxDocId THEN docId ELSE maxDocId

Call(kind, accepted) == [kind |-> kind, c |-> commitCount, accepted |-> accepted]

\* insertDocument counting every insert, without the _indexedDocs test
insertDocument_AlwaysCounts(docId, doc) ==
    /\ pc = "idle"
    /\ Len(ops) < MaxOps
    /\ ops' = Append(ops, Call("insert", ~frozen))
    /\ IF frozen
       THEN UNCHANGED <<maxDocId, invertThreads, indexedDocs, numDocs, docs>>
       ELSE /\ maxDocId' = updateMaxDocId(docId)
            /\ docs' = [docs EXCEPT ![docId] = doc]
            /\ invertThreads' =
                   invertDocument(invertThreads, inverter, Len(ops) + 1, docId, doc)
            /\ indexedDocs' = indexedDocs \cup {docId}
            /\ numDocs' = numDocs + 1
    /\ UNCHANGED <<onWriteDone, frozen, inverter, inverters, pushThreads, fieldIndexes,
                   pruneVars, blueprints, pc, commitCount, pushLog, snapshots, frozenAt>>

\* insertDocument without the _frozen test
insertDocument_IgnoresFrozen(docId, doc) ==
    /\ pc = "idle"
    /\ Len(ops) < MaxOps
    /\ ops' = Append(ops, Call("insert", ~frozen))
    /\ maxDocId' = updateMaxDocId(docId)
    /\ docs' = [docs EXCEPT ![docId] = doc]
    /\ invertThreads' = invertDocument(invertThreads, inverter, Len(ops) + 1, docId, doc)
    /\ indexedDocs' = indexedDocs \cup {docId}
    /\ numDocs' = IF docId \notin indexedDocs THEN numDocs + 1 ELSE numDocs
    /\ UNCHANGED <<onWriteDone, frozen, inverter, inverters, pushThreads, fieldIndexes,
                   pruneVars, blueprints, pc, commitCount, pushLog, snapshots, frozenAt>>

insertDocument(docId, doc) ==
    /\ pc = "idle"
    /\ Len(ops) < MaxOps
    /\ ops' = Append(ops, Call("insert", ~frozen))
    /\ IF frozen
       THEN UNCHANGED <<maxDocId, invertThreads, indexedDocs, numDocs, docs>>
       ELSE /\ maxDocId' = updateMaxDocId(docId)
            /\ docs' = [docs EXCEPT ![docId] = doc]
            /\ invertThreads' =
                   invertDocument(invertThreads, inverter, Len(ops) + 1, docId, doc)
            /\ indexedDocs' = indexedDocs \cup {docId}
            /\ numDocs' = IF docId \notin indexedDocs THEN numDocs + 1 ELSE numDocs
    /\ UNCHANGED <<onWriteDone, frozen, inverter, inverters, pushThreads, fieldIndexes,
                   pruneVars, blueprints, pc, commitCount, pushLog, snapshots, frozenAt>>

\* removeDocument counting every remove, without the _indexedDocs test
removeDocument_AlwaysCounts(docId) ==
    /\ pc = "idle"
    /\ Len(ops) < MaxOps
    /\ ops' = Append(ops, Call("remove", ~frozen))
    /\ IF frozen
       THEN UNCHANGED <<invertThreads, indexedDocs, numDocs, docs>>
       ELSE /\ docs' = [docs EXCEPT ![docId] = NoDocument]
            /\ invertThreads' =
                   inverterRemoveDocument(invertThreads, inverter, Len(ops) + 1, docId)
            /\ indexedDocs' = indexedDocs \ {docId}
            /\ numDocs' = numDocs - 1
    /\ UNCHANGED <<onWriteDone,
                   frozen, maxDocId, inverter, inverters, pushThreads, fieldIndexes,
                   pruneVars, blueprints, pc, commitCount, pushLog, snapshots, frozenAt>>

\* removeDocument without the call of _inverter->removeDocument
removeDocument_NotForwarded(docId) ==
    /\ pc = "idle"
    /\ Len(ops) < MaxOps
    /\ ops' = Append(ops, Call("remove", ~frozen))
    /\ IF frozen
       THEN UNCHANGED <<indexedDocs, numDocs, docs>>
       ELSE /\ docs' = [docs EXCEPT ![docId] = NoDocument]
            /\ indexedDocs' = indexedDocs \ {docId}
            /\ numDocs' = IF docId \in indexedDocs THEN numDocs - 1 ELSE numDocs
    /\ UNCHANGED <<onWriteDone,
                   frozen, maxDocId, inverter, inverters, invertThreads, pushThreads,
                   fieldIndexes, pruneVars, blueprints, pc, commitCount, pushLog,
                   snapshots, frozenAt>>

removeDocument(docId) ==
    /\ pc = "idle"
    /\ Len(ops) < MaxOps
    /\ ops' = Append(ops, Call("remove", ~frozen))
    /\ IF frozen
       THEN UNCHANGED <<invertThreads, indexedDocs, numDocs, docs>>
       ELSE /\ docs' = [docs EXCEPT ![docId] = NoDocument]
            /\ invertThreads' =
                   inverterRemoveDocument(invertThreads, inverter, Len(ops) + 1, docId)
            /\ indexedDocs' = indexedDocs \ {docId}
            /\ numDocs' = IF docId \in indexedDocs THEN numDocs - 1 ELSE numDocs
    /\ UNCHANGED <<onWriteDone,
                   frozen, maxDocId, inverter, inverters, pushThreads, fieldIndexes,
                   pruneVars, blueprints, pc, commitCount, pushLog, snapshots, frozenAt>>

\* commit() is entered; it first waits in _invertThreads.sync()
commit ==
    /\ pc = "idle"
    /\ commitCount < MaxCommits
    /\ commitCount' = commitCount + 1
    /\ onWriteDone' = TokenRefs(commitCount + 1, 1)
    /\ pc' = "sync_invert"
    /\ UNCHANGED <<indexVars, inverters, invertThreads, pushThreads, fieldIndexes,
                   pruneVars, blueprints, histVars>>

\* _invertThreads.sync() returns
commitSyncInvert ==
    /\ pc = "sync_invert"
    /\ Synced(invertThreads)
    /\ pc' = "sync_push"
    /\ UNCHANGED <<onWriteDone,
                   indexVars, inverters, invertThreads, pushThreads, fieldIndexes,
                   pruneVars, blueprints, commitCount, histVars>>

\* commit() without _pushThreads.sync()
commitSyncPush_NoWait ==
    /\ pc = "sync_push"
    /\ pc' = "push"
    /\ UNCHANGED <<onWriteDone,
                   indexVars, inverters, invertThreads, pushThreads, fieldIndexes,
                   pruneVars, blueprints, commitCount, histVars>>

\* _pushThreads.sync() returns
commitSyncPush ==
    /\ pc = "sync_push"
    /\ Synced(pushThreads)
    /\ pc' = "push"
    /\ UNCHANGED <<onWriteDone,
                   indexVars, inverters, invertThreads, pushThreads, fieldIndexes,
                   pruneVars, blueprints, commitCount, histVars>>

\* commit() pushing the inverter that flipInverter() would select
commitPushDocuments_OtherInverter ==
    /\ pc = "push"
    /\ Synced(invertThreads)
    /\ pushThreads' = pushDocuments(pushThreads, 1 - inverter, commitCount, commitCount)
    /\ onWriteDone' = TokenRefs(commitCount, Cardinality(Fields))
    /\ pc' = "flip"
    /\ snapshots' = Append(snapshots, docs)
    /\ UNCHANGED <<indexVars, inverters, invertThreads, fieldIndexes,
                   pruneVars, blueprints, commitCount, ops, pushLog, docs, frozenAt>>

\* commit() not passing onWriteDone on to pushDocuments
commitPushDocuments_DropsToken ==
    /\ pc = "push"
    /\ Synced(invertThreads)
    /\ pushThreads' = pushDocuments(pushThreads, inverter, commitCount, NoToken)
    /\ onWriteDone' = TokenRefs(NoToken, Cardinality(Fields))
    /\ pc' = "flip"
    /\ snapshots' = Append(snapshots, docs)
    /\ UNCHANGED <<indexVars, inverters, invertThreads, fieldIndexes,
                   pruneVars, blueprints, commitCount, ops, pushLog, docs, frozenAt>>

\* _inverter->pushDocuments(*_fieldIndexes, onWriteDone)
commitPushDocuments ==
    /\ pc = "push"
    /\ Synced(invertThreads)
    /\ pushThreads' = pushDocuments(pushThreads, inverter, commitCount, commitCount)
    /\ onWriteDone' = TokenRefs(commitCount, Cardinality(Fields))
    /\ pc' = "flip"
    /\ snapshots' = Append(snapshots, docs)
    /\ UNCHANGED <<indexVars, inverters, invertThreads, fieldIndexes,
                   pruneVars, blueprints, commitCount, ops, pushLog, docs, frozenAt>>

\* flipInverter() leaving _inverter where it is
flipInverter_Stays ==
    /\ pc = "flip"
    /\ inverter' = inverter
    /\ onWriteDone' = TokenRefs(commitCount, -1)
    /\ pc' = "idle"
    /\ UNCHANGED <<frozen, maxDocId, numDocs, indexedDocs, inverters, invertThreads,
                   pushThreads, fieldIndexes, pruneVars, blueprints, commitCount,
                   histVars>>

\* flipInverter(), after which commit() returns
flipInverter ==
    /\ pc = "flip"
    /\ inverter' = (IF inverter # 0 THEN 0 ELSE 1)
    /\ onWriteDone' = TokenRefs(commitCount, -1)
    /\ pc' = "idle"
    /\ UNCHANGED <<frozen, maxDocId, numDocs, indexedDocs, inverters, invertThreads,
                   pushThreads, fieldIndexes, pruneVars, blueprints, commitCount,
                   histVars>>

freeze ==
    /\ pc = "idle"
    /\ ~frozen
    /\ frozen' = TRUE
    /\ frozenAt' = commitCount
    /\ UNCHANGED <<onWriteDone,
                   maxDocId, numDocs, indexedDocs, inverter, inverters, invertThreads,
                   pushThreads, fieldIndexes, pruneVars, blueprints, pc, commitCount,
                   ops, pushLog, docs, snapshots>>

(* ----------------------------- destructor ----------------------------- *)

\* ~MemoryIndex() is entered; it first waits in _invertThreads.sync()
destroy ==
    /\ pc = "idle"
    /\ pc' = "dtor_sync_invert"
    /\ UNCHANGED <<onWriteDone, indexVars, inverters, invertThreads, pushThreads,
                   fieldIndexes, pruneVars, blueprints, commitCount, histVars>>

\* _invertThreads.sync() returns
destroySyncInvert ==
    /\ pc = "dtor_sync_invert"
    /\ Synced(invertThreads)
    /\ pc' = "dtor_sync_push"
    /\ UNCHANGED <<onWriteDone, indexVars, inverters, invertThreads, pushThreads,
                   fieldIndexes, pruneVars, blueprints, commitCount, histVars>>

\* ~MemoryIndex() without _pushThreads.sync()
destroySyncPush_NoWait ==
    /\ pc = "dtor_sync_push"
    /\ pc' = "destroyed"
    /\ UNCHANGED <<onWriteDone, indexVars, inverters, invertThreads, pushThreads,
                   fieldIndexes, pruneVars, blueprints, commitCount, histVars>>

\* _pushThreads.sync() returns; the members are destroyed next
destroySyncPush ==
    /\ pc = "dtor_sync_push"
    /\ Synced(pushThreads)
    /\ pc' = "destroyed"
    /\ UNCHANGED <<onWriteDone, indexVars, inverters, invertThreads, pushThreads,
                   fieldIndexes, pruneVars, blueprints, commitCount, histVars>>

(* --------------------------- executor tasks ---------------------------- *)

\* the invert-stage executor runs the oldest task of key f
InvertTask(f) ==
    /\ invertThreads[f] # <<>>
    /\ LET task == Head(invertThreads[f])
       IN  inverters' = [inverters EXCEPT ![task.inv][f] = InvertField(@, task)]
    /\ invertThreads' = [invertThreads EXCEPT ![f] = Tail(@)]
    /\ UNCHANGED <<onWriteDone,
                   indexVars, pushThreads, fieldIndexes, pruneVars, blueprints, pc,
                   commitCount, histVars>>

\* the push-stage executor starts the oldest task of key f: the removes
PushTaskRemoves(f) ==
    /\ pushThreads[f] # <<>>
    /\ Head(pushThreads[f]).phase = "removes"
    /\ LET task == Head(pushThreads[f])
       IN  fieldIndexes' = [fieldIndexes EXCEPT
                               ![f] = applyRemoves(@, inverters[task.inv][f])]
    /\ pushThreads' = [pushThreads EXCEPT ![f][1].phase = "inserts"]
    /\ UNCHANGED <<onWriteDone,
                   indexVars, inverters, invertThreads, pruneVars, blueprints, pc,
                   commitCount, histVars>>

\* ... and finishes it: the staged postings, the field index's commit, the
\* reset of the field inverter, the release of the completion token
PushTaskInserts(f) ==
    /\ pushThreads[f] # <<>>
    /\ Head(pushThreads[f]).phase = "inserts"
    /\ LET task   == Head(pushThreads[f])
           staged == inverters[task.inv][f]
       IN  /\ fieldIndexes' = [fieldIndexes EXCEPT
                   ![f] = commitFieldIndex(pushFieldDocuments(@, staged), Guards(f))]
           /\ inverters' = [inverters EXCEPT ![task.inv][f] = EmptyFieldInverter]
           /\ pushLog' = [o \in OpIds |->
                   IF o \in staged.ops
                   THEN [pushLog[o] EXCEPT ![f] = Append(@, task.commit)]
                   ELSE pushLog[o]]
    /\ pushThreads' = [pushThreads EXCEPT ![f] = Tail(@)]
    /\ onWriteDone' = TokenRefs(Head(pushThreads[f]).token, -1)
    /\ UNCHANGED <<indexVars, invertThreads, pruneVars, blueprints, pc, commitCount, ops,
                   docs, snapshots, frozenAt>>

(* ------------------------------- queries ------------------------------- *)

\* MemTermBlueprint: keeps the generation guard and the posting cursor, and
\* reads the posting list for its estimate
MemTermBlueprint(genGuard, pitr, fieldId, t) ==
    LET fi    == fieldIndexes[fieldId]
        found == IF ValidRef(fi, t, pitr) THEN ReadPosting(fi, t, pitr) ELSE {}
    IN  [state |-> "built", field |-> fieldId, term |-> t, gen |-> genGuard,
         ref |-> pitr, at |-> fi.generation, expect |-> found, hits |-> found,
         raced |-> FALSE, stale |-> FALSE]

\* visitTerm building a blueprint that does not keep the generation guard
visitTerm_DropsGuard(fieldId, t) ==
    LET fieldIndex == fieldIndexes[fieldId]
        pitr       == findFrozen(fieldIndex, t)
    IN  MemTermBlueprint(-1, pitr, fieldId, t)

\* visitTerm looking the term up in the live dictionary, not the frozen one
visitTerm_FindsLive(fieldId, t) ==
    LET fieldIndex == fieldIndexes[fieldId]
        genGuard   == takeGenerationGuard(fieldIndex)
        pitr       == fieldIndex.dict[t]
    IN  MemTermBlueprint(genGuard, pitr, fieldId, t)

\* CreateBlueprintVisitor::visitTerm: the generation guard, then the frozen
\* lookup, then the blueprint that owns both
visitTerm(fieldId, t) ==
    LET fieldIndex == fieldIndexes[fieldId]
        genGuard   == takeGenerationGuard(fieldIndex)
        pitr       == findFrozen(fieldIndex, t)
    IN  MemTermBlueprint(genGuard, pitr, fieldId, t)

\* a query builds its blueprints one after the other
FreeSlot(s) == /\ blueprints[s].state = "none"
               /\ \A x \in Slots : x < s => blueprints[x].state # "none"

\* the values the read of _hiddenFields[fieldId] can yield: it is made
\* without _lock, so while pruneRemovedFields is in its loop it races the
\* loop's writes and yields the old bit or the one the loop is writing
HiddenRead(fieldId) ==
    IF lock
    THEN {hiddenFields[fieldId], ~isValid(prunedSchema.fields, fieldId)}
    ELSE {hiddenFields[fieldId]}

\* createBlueprint testing the field id only, not _hiddenFields
createBlueprint_IgnoresHidden(s, name, t) ==
    /\ FreeSlot(s)
    /\ LET fieldId == getIndexFieldId(name)
       IN  IF fieldId = UNKNOWN_FIELD_ID
           THEN blueprints' = [blueprints EXCEPT ![s] =
                    [NoBlueprint EXCEPT !.state = "empty", !.field = fieldId]]
           ELSE blueprints' = [blueprints EXCEPT ![s] =
                    [visitTerm(fieldId, t) EXCEPT
                        !.raced = lock,
                        !.stale = ~isValid(EffectiveSchema, fieldId)]]
    /\ UNCHANGED <<onWriteDone,
                   indexVars, inverters, invertThreads, pushThreads, fieldIndexes,
                   pruneVars, pc, commitCount, histVars>>

createBlueprint(s, name, t) ==
    /\ FreeSlot(s)
    /\ LET fieldId == getIndexFieldId(name)
       IN  IF fieldId = UNKNOWN_FIELD_ID
           THEN blueprints' = [blueprints EXCEPT ![s] =
                    [NoBlueprint EXCEPT !.state = "empty", !.field = fieldId]]
           ELSE \E hidden \in HiddenRead(fieldId) :
                    blueprints' = [blueprints EXCEPT ![s] =
                        IF hidden
                        THEN [NoBlueprint EXCEPT !.state = "empty", !.field = fieldId,
                                                 !.raced = lock]
                        ELSE [visitTerm(fieldId, t) EXCEPT
                                 !.raced = lock,
                                 !.stale = ~isValid(EffectiveSchema, fieldId)]]
    /\ UNCHANGED <<onWriteDone,
                   indexVars, inverters, invertThreads, pushThreads, fieldIndexes,
                   pruneVars, pc, commitCount, histVars>>

\* MemTermBlueprint::createLeafSearch and the iteration of the posting list
\* behind _pitr; reading storage that was freed can yield anything
createLeafSearch(s) ==
    /\ blueprints[s].state = "built"
    /\ LET b  == blueprints[s]
           fi == fieldIndexes[b.field]
       IN  \E hits \in (IF ValidRef(fi, b.term, b.ref)
                        THEN {ReadPosting(fi, b.term, b.ref)} ELSE SUBSET Docs) :
               blueprints' = [blueprints EXCEPT ![s] =
                   [b EXCEPT !.hits = hits]]
    /\ UNCHANGED <<onWriteDone,
                   indexVars, inverters, invertThreads, pushThreads, fieldIndexes,
                   pruneVars, pc, commitCount, histVars>>

\* the query ends: its blueprints are destroyed, and their generation
\* guards with them
destroyBlueprints ==
    /\ blueprints[1].state # "none"
    /\ blueprints' = [s \in Slots |-> NoBlueprint]
    /\ UNCHANGED <<onWriteDone,
                   indexVars, inverters, invertThreads, pushThreads, fieldIndexes,
                   pruneVars, pc, commitCount, histVars>>

(* ---------------------------- schema pruning --------------------------- *)

\* pruneRemovedFields intersecting with _schema on every call, never with
\* _prunedSchema
pruneRemovedFields_FromOriginal(schema) ==
    /\ ~lock
    /\ pruneCount < MaxPrunes
    /\ pruneCount' = pruneCount + 1
    /\ prunedTo' = prunedTo \cap schema
    /\ LET newSchema == intersect(Fields, schema)
       IN  IF EffectiveSchema = newSchema
           THEN UNCHANGED <<prunedSchema, lock, pruneI>>
           ELSE /\ prunedSchema' = [present |-> TRUE, fields |-> newSchema]
                /\ lock' = TRUE
                /\ pruneI' = 1
    /\ UNCHANGED <<onWriteDone,
                   indexVars, inverters, invertThreads, pushThreads, fieldIndexes,
                   hiddenFields, blueprints, pc, commitCount, histVars>>

\* pruneRemovedFields without the test that returns when nothing is removed
pruneRemovedFields_AlwaysResets(schema) ==
    /\ ~lock
    /\ pruneCount < MaxPrunes
    /\ pruneCount' = pruneCount + 1
    /\ prunedTo' = prunedTo \cap schema
    /\ prunedSchema' = [present |-> TRUE, fields |-> intersect(EffectiveSchema, schema)]
    /\ lock' = TRUE
    /\ pruneI' = 1
    /\ UNCHANGED <<onWriteDone,
                   indexVars, inverters, invertThreads, pushThreads, fieldIndexes,
                   hiddenFields, blueprints, pc, commitCount, histVars>>

\* pruneRemovedFields up to the loop: the LockGuard, the intersection, the
\* return when nothing is removed (which releases the lock), else the new
\* _prunedSchema
pruneRemovedFields(schema) ==
    /\ ~lock
    /\ pruneCount < MaxPrunes
    /\ pruneCount' = pruneCount + 1
    /\ prunedTo' = prunedTo \cap schema
    /\ LET newSchema == intersect(EffectiveSchema, schema)
       IN  IF EffectiveSchema = newSchema
           THEN UNCHANGED <<prunedSchema, lock, pruneI>>
           ELSE /\ prunedSchema' = [present |-> TRUE, fields |-> newSchema]
                /\ lock' = TRUE
                /\ pruneI' = 1
    /\ UNCHANGED <<onWriteDone,
                   indexVars, inverters, invertThreads, pushThreads, fieldIndexes,
                   hiddenFields, blueprints, pc, commitCount, histVars>>

\* the loop returning after its first round
pruneHideField_StopsEarly ==
    /\ lock
    /\ pruneI \in Fields
    /\ hiddenFields' = [hiddenFields EXCEPT
                           ![pruneI] = ~isValid(prunedSchema.fields, pruneI)]
    /\ pruneI' = 0
    /\ lock' = FALSE
    /\ UNCHANGED <<onWriteDone,
                   indexVars, inverters, invertThreads, pushThreads, fieldIndexes,
                   prunedSchema, pruneCount, prunedTo, blueprints, pc, commitCount,
                   histVars>>

\* one round of the loop over the index fields of _schema; after the last
\* one the function returns and the LockGuard releases the lock
pruneHideField ==
    /\ lock
    /\ pruneI \in Fields
    /\ hiddenFields' = [hiddenFields EXCEPT
                           ![pruneI] = ~isValid(prunedSchema.fields, pruneI)]
    /\ IF pruneI + 1 \in Fields
       THEN pruneI' = pruneI + 1 /\ UNCHANGED lock
       ELSE pruneI' = 0 /\ lock' = FALSE
    /\ UNCHANGED <<onWriteDone,
                   indexVars, inverters, invertThreads, pushThreads, fieldIndexes,
                   prunedSchema, pruneCount, prunedTo, blueprints, pc, commitCount,
                   histVars>>

Schemas == SUBSET Fields

(* -------------------------------- Next --------------------------------- *)

\* the writer's insertDocument, removeDocument and commit calls
Calls ==
    \/ \E d \in Docs, doc \in Documents : insertDocument(d, doc)
    \/ \E d \in Docs : removeDocument(d)
    \/ commit
    \/ commitSyncInvert
    \/ commitSyncPush
    \/ commitPushDocuments
    \/ flipInverter

\* the two sequenced executors
Executors ==
    \/ \E f \in Fields : InvertTask(f)
    \/ \E f \in Fields : PushTaskRemoves(f)
    \/ \E f \in Fields : PushTaskInserts(f)

\* the query threads
Queries ==
    \/ \E s \in Slots, name \in FieldNames, t \in Terms : createBlueprint(s, name, t)
    \/ \E s \in Slots : createLeafSearch(s)
    \/ destroyBlueprints

Pruning ==
    \/ \E schema \in Schemas : pruneRemovedFields(schema)
    \/ pruneHideField

\* the write path: the writer, freeze included, and the executors
Next == Calls \/ freeze \/ Executors

Spec == Init /\ [][Next]_vars

\* queries against the write path
NextQuery == Calls \/ Executors \/ Queries

SpecQuery == Init /\ [][NextQuery]_vars

\* the destructor
Destructor == destroy \/ destroySyncInvert \/ destroySyncPush

\* the write path up to the destruction of the index
NextLife == Next \/ Destructor

\* the steps a thread inside commit() or the destructor takes by itself
Running ==
    \/ commitSyncInvert
    \/ commitSyncPush
    \/ commitPushDocuments
    \/ flipInverter
    \/ destroySyncInvert
    \/ destroySyncPush

\* the executors keep running queued tasks, and a thread inside commit() or
\* the destructor runs on: a sync() returns once its executor has drained
Fairness == WF_vars(Executors) /\ WF_vars(Running)

SpecLife == Init /\ [][NextLife]_vars /\ Fairness

\* every call of the index but the queries: the write path and pruning
NextAll == Next \/ Pruning

SpecAll == Init /\ [][NextAll]_vars

\* schema pruning against queries
NextPrune == Pruning \/ Queries

SpecPrune == Init /\ [][NextPrune]_vars

\* queries of one term on an index with committed postings and hidden fields
NextHidden ==
    \/ \E doc \in Documents : insertDocument(1, doc)
    \/ commit
    \/ commitSyncInvert
    \/ commitSyncPush
    \/ commitPushDocuments
    \/ flipInverter
    \/ Executors
    \/ Pruning
    \/ \E name \in FieldNames, t \in Terms : createBlueprint(1, name, t)
    \/ destroyBlueprints

SpecHidden == Init /\ [][NextHidden]_vars

(* ------------------------------ properties ----------------------------- *)

\* the number of commits whose pushDocuments has been called
PushIssued == Len(snapshots)

\* commit k has called pushDocuments and none of its push-stage work is left
PushDone(k) ==
    /\ PushIssued >= k
    /\ \A f \in Fields : \A i \in 1..Len(pushThreads[f]) : pushThreads[f][i].commit # k

\* the documents whose field f held term t when commit k pushed (none before
\* the first commit)
ExpectedAt(k, f, t) ==
    IF k = 0 THEN {} ELSE {d \in Docs : t \in snapshots[k][d][f]}

\* the postings a createBlueprint for term t on field f would bind now
WouldFind(f, t) ==
    IF hiddenFields[f] THEN {}
    ELSE ReadPosting(fieldIndexes[f], t, findFrozen(fieldIndexes[f], t))

Built == {s \in Slots : blueprints[s].state = "built"}

\* C1, as stated: once the latest commit() has returned, every term of the
\* documents inserted before it is found on its (non-hidden) field.
C1_FoundOnReturn ==
    (PushIssued >= 1 /\ PushIssued = commitCount /\ pc = "idle") =>
        \A f \in Fields, t \in Terms :
            ~hiddenFields[f] => ExpectedAt(PushIssued, f, t) \subseteq WouldFind(f, t)

\* C1, amended: once the push-stage work of the latest commit has completed,
\* every term of the documents inserted before that commit is found on its
\* (non-hidden) field.
C1_FoundAfterPush ==
    (PushIssued >= 1 /\ PushDone(PushIssued)) =>
        \A f \in Fields, t \in Terms :
            ~hiddenFields[f] => ExpectedAt(PushIssued, f, t) \subseteq WouldFind(f, t)

\* C1 witness: the push work of a commit is complete and a blueprint built
\* since has bound the postings of a term inserted before that commit.
C1_Witness ==
    /\ PushIssued >= 1 /\ PushDone(PushIssued) /\ pc = "idle"
    /\ \E s \in Built :
        /\ blueprints[s].at = PushIssued
        /\ blueprints[s].expect # {}
        /\ blueprints[s].expect = ExpectedAt(PushIssued, blueprints[s].field, blueprints[s].term)

AcceptedInserts == {o \in 1..Len(ops) : ops[o].kind = "insert" /\ ops[o].accepted}

\* C2: the staged work of every accepted insert is pushed at most once per
\* field, by the same commit for all fields, that commit is one of the two
\* that follow the insert, and it has been pushed once both have completed
\* their push-stage work.
C2_PushedByOneCommit ==
    \A o \in AcceptedInserts :
        \A f \in Fields :
            /\ Len(pushLog[o][f]) <= 1
            /\ \A i \in 1..Len(pushLog[o][f]) :
                   pushLog[o][f][i] \in {ops[o].c + 1, ops[o].c + 2}
            /\ \A g \in Fields :
                   (pushLog[o][f] # <<>> /\ pushLog[o][g] # <<>>) =>
                       pushLog[o][f] = pushLog[o][g]
            /\ (PushDone(ops[o].c + 1) /\ PushDone(ops[o].c + 2)) =>
                   Len(pushLog[o][f]) = 1

\* C2 witness: an insert submitted after a commit whose push work was still
\* outstanding has been pushed, in all fields, by the following commit.
C2_Witness ==
    \E o \in AcceptedInserts :
        /\ ops[o].c = 1
        /\ \A f \in Fields : pushLog[o][f] = <<2>>

Inverters == {0, 1}

\* the inverter an insertDocument/removeDocument call would be forwarded to
Accepting(i) == inverter = i /\ pc = "idle"

\* inversions into inverter i are queued on the invert-stage executor
Inverting(i) ==
    \E f \in Fields : \E n \in 1..Len(invertThreads[f]) : invertThreads[f][n].inv = i

\* push-stage work of inverter i is queued or running
BeingPushed(i) ==
    \E f \in Fields : \E n \in 1..Len(pushThreads[f]) : pushThreads[f][n].inv = i

\* C5: at most one inverter accepts insert/remove, and no inverter accepts
\* them (or has inversions in flight) while its staged deltas are being
\* pushed.
C5_Exclusive ==
    /\ Cardinality({i \in Inverters : Accepting(i)}) <= 1
    /\ \A i \in Inverters : ~((Accepting(i) \/ Inverting(i)) /\ BeingPushed(i))

\* C5 witness: one inverter is being pushed while the other one accepts
\* documents and has inversions in flight.
C5_Witness ==
    \E i \in Inverters :
        BeingPushed(i) /\ Accepting(1 - i) /\ Inverting(1 - i)

\* a step that queues push-stage work
EnqueuesPush == \E f \in Fields : Len(pushThreads'[f]) > Len(pushThreads[f])

\* C6: push-stage work is queued only by a commit that has found both
\* executors drained, the active inverter changes only in the last step of a
\* commit that has called pushDocuments, and no commit returns without it.
C6_CommitOrder ==
    [][ /\ EnqueuesPush =>
            (pc = "push" /\ Synced(invertThreads) /\ Synced(pushThreads))
        /\ inverter' # inverter =>
            (pc = "flip" /\ pc' = "idle" /\ PushIssued = commitCount)
        /\ (pc # "idle" /\ pc' = "idle") =>
            (inverter' # inverter /\ PushIssued = commitCount) ]_vars

\* C6 witness: a second commit has queued its push-stage work, after the
\* first one's, and is about to flip.
C6_Witness ==
    /\ pc = "flip"
    /\ commitCount = 2
    /\ \A f \in Fields : Len(pushThreads[f]) = 1 /\ pushThreads[f][1].commit = 2

\* the invert-stage work a step queues for document docId with contents doc
Forwarded(docId, doc) ==
    \A f \in Fields :
        invertThreads'[f] = Append(invertThreads[f],
            [inv |-> inverter, op |-> Len(ops) + 1, doc |-> docId, terms |-> doc[f]])

\* C7: on an unfrozen index insertDocument forwards the document to the
\* active inverter, and increments the live document count exactly when the
\* id was not already indexed.
C7_Reinsert ==
    [][ \A d \in Docs, doc \in Documents :
            (insertDocument(d, doc) /\ ~frozen) =>
                /\ Forwarded(d, doc)
                /\ d \in indexedDocs'
                /\ numDocs' = (IF d \in indexedDocs THEN numDocs ELSE numDocs + 1) ]_vars

\* C7 witness: two accepted inserts of one id, counted once.
C7_Witness ==
    /\ Len(ops) = 2
    /\ \A o \in 1..2 : ops[o].kind = "insert" /\ ops[o].accepted
    /\ Cardinality(indexedDocs) = 1
    /\ numDocs = 1

\* C8: on an unfrozen index removeDocument of an indexed id decrements the
\* live document count by one and unmarks the id; of any other id it leaves
\* the count and the indexed ids unchanged.
C8_Remove ==
    [][ \A d \in Docs :
            (removeDocument(d) /\ ~frozen) =>
                IF d \in indexedDocs
                THEN numDocs' = numDocs - 1 /\ indexedDocs' = indexedDocs \ {d}
                ELSE numDocs' = numDocs /\ indexedDocs' = indexedDocs ]_vars

\* C8 witness: an accepted insert and an accepted remove of it, the count
\* back at zero.
C8_Witness ==
    /\ Len(ops) = 2
    /\ ops[1].kind = "insert" /\ ops[1].accepted
    /\ ops[2].kind = "remove" /\ ops[2].accepted
    /\ numDocs = 0
    /\ indexedDocs = {}

\* an insertDocument or removeDocument call returns
InsertOrRemove ==
    \/ \E d \in Docs, doc \in Documents : insertDocument(d, doc)
    \/ \E d \in Docs : removeDocument(d)

\* C9: on a frozen index insertDocument and removeDocument forward nothing
\* and leave the postings, the live document count, the indexed ids and the
\* max doc id unchanged.
C9_FreezeBarrier ==
    [][ (frozen /\ InsertOrRemove) =>
            UNCHANGED <<invertThreads, inverters, pushThreads, fieldIndexes,
                        numDocs, indexedDocs, maxDocId>> ]_vars

\* C9 witness: a call was made on a frozen index that holds documents.
C9_Witness ==
    /\ frozen
    /\ numDocs > 0
    /\ \E o \in 1..Len(ops) : ~ops[o].accepted

\* the postings of the field-index collection, live and frozen
Contents ==
    [f \in Fields |-> [t \in Terms |->
        <<LivePosting(fieldIndexes[f], t),
          ReadPosting(fieldIndexes[f], t, fieldIndexes[f].frozenDict[t])>>]]

\* nothing is staged in an inverter or on its way there
NothingStaged ==
    /\ Synced(invertThreads)
    /\ \A i \in Inverters, f \in Fields : inverters[i][f] = EmptyFieldInverter

\* all push-stage work of the commits called before freeze() is complete
PushDoneBeforeFreeze == \A k \in 1..frozenAt : PushDone(k)

\* C10, as stated: once frozen, and once the work of the commits called
\* before the freeze is complete, nothing changes the contents of the
\* field-index collection.
C10_ReadOnlyAfterFreeze ==
    [][ (frozen /\ PushDoneBeforeFreeze) => Contents' = Contents ]_vars

\* C10, amended: once frozen, the contents of the field-index collection
\* change only by pushing what was staged before the freeze: with nothing
\* staged, nothing changes them and nothing is staged again.
C10_ReadOnlyOnceDrained ==
    [][ (frozen /\ NothingStaged) => (Contents' = Contents /\ NothingStaged') ]_vars

\* C10 witness: a frozen index with postings, nothing staged, after calls
\* that were rejected.
C10_Witness ==
    /\ frozen
    /\ NothingStaged
    /\ \E f \in Fields, t \in Terms : LivePosting(fieldIndexes[f], t) # {}
    /\ \E o \in 1..Len(ops) : ~ops[o].accepted

\* C3: for as long as a blueprint lives, the posting list behind its cursor
\* is allocated and yields the documents it held when the blueprint was
\* built, whatever later commits push.
C3_GenerationSafe ==
    \A s \in Built :
        LET b  == blueprints[s]
            fi == fieldIndexes[b.field]
        IN  /\ ValidRef(fi, b.term, b.ref)
            /\ ReadPosting(fi, b.term, b.ref) = b.expect
            /\ b.hits = b.expect

\* C3 witness: a later commit has replaced the posting list of a live
\* blueprint's term, and a new blueprint would bind other documents.
C3_Witness ==
    \E s \in Built :
        LET b  == blueprints[s]
            fi == fieldIndexes[b.field]
        IN  /\ b.ref # 0
            /\ fi.generation > b.at
            /\ findFrozen(fi, b.term) # b.ref
            /\ WouldFind(b.field, b.term) # b.expect

\* the blueprints of the query all show the index as commit k left it
QuerySees(k) ==
    \A s \in Built :
        blueprints[s].expect = ExpectedAt(k, blueprints[s].field, blueprints[s].term)

\* C4, as stated: the blueprints of a query all show the state before a
\* commit or all show the state after it.
C4_NoTornQuery == \E k \in 0..PushIssued : QuerySees(k)

\* C4, amended: each blueprint shows the complete posting list of its term
\* as one commit left it, the latest one pushed into its field when the
\* blueprint was built; never a part of a commit's deltas.
C4_BlueprintAtomic ==
    \A s \in Built :
        LET b == blueprints[s]
        IN  b.expect = ExpectedAt(b.at, b.field, b.term)

\* C4 witness: a query holds a blueprint built before a commit was pushed
\* into its field and one built after, and no single commit explains both.
C4_Witness ==
    /\ \E s1 \in Built, s2 \in Built : blueprints[s1].at < blueprints[s2].at
    /\ ~ \E k \in 0..PushIssued : QuerySees(k)

\* C11: once a pruneRemovedFields call has returned, a field is hidden
\* exactly when it is absent from the original schema intersected, one
\* after the other, with every schema passed so far.
C11_HiddenIsIntersection ==
    ~lock => \A f \in Fields : hiddenFields[f] <=> f \notin prunedTo

\* C11 witness: two calls have each removed a different field, and both
\* fields are hidden though the last schema passed holds one of them.
C11_Witness ==
    /\ ~lock
    /\ pruneCount = 2
    /\ prunedTo = {}
    /\ \A f \in Fields : hiddenFields[f]

\* C12: a pruneRemovedFields call whose schema removes nothing from the
\* schema in force returns at once and leaves _prunedSchema (absent or
\* not) and the hidden fields as they were.
C12_PruneNoOp ==
    [][ \A schema \in Schemas :
            (pruneRemovedFields(schema) /\ intersect(EffectiveSchema, schema) = EffectiveSchema)
                => UNCHANGED <<prunedSchema, hiddenFields, lock>> ]_vars

\* C12 witness: calls that removed nothing have been made, and there is
\* still no pruned schema.
C12_Witness ==
    /\ pruneCount = 2
    /\ ~prunedSchema.present
    /\ ~lock

\* C13: no step widens the schema in force, and no step shows a field
\* that was hidden.
C13_PruneMonotonic ==
    [][ /\ EffectiveSchema' \subseteq EffectiveSchema
        /\ \A f \in Fields : hiddenFields[f] => hiddenFields'[f] ]_vars

\* C13 witness: a second effective call is recomputing the hidden fields,
\* with a field hidden by the first one.
C13_Witness ==
    /\ lock
    /\ pruneCount = 2
    /\ \E f \in Fields : hiddenFields[f]
    /\ \E f \in Fields : ~hiddenFields[f] /\ f \notin prunedSchema.fields

\* C19: whenever _lock is free, a field is hidden exactly when there is a
\* pruned schema and the field is not in it.
C19_PruneStateConsistent ==
    ~lock => \A f \in Fields :
        hiddenFields[f] <=> (prunedSchema.present /\ ~isValid(prunedSchema.fields, f))

\* C19 witness: a call has returned that left one field hidden and one
\* visible.
C19_Witness ==
    /\ ~lock
    /\ prunedSchema.present
    /\ \E f \in Fields : hiddenFields[f]
    /\ \E f \in Fields : ~hiddenFields[f]

\* the field name is no index field of the schema, or its field is hidden
UnknownOrHidden(name) ==
    IF getIndexFieldId(name) = UNKNOWN_FIELD_ID THEN TRUE
    ELSE hiddenFields[getIndexFieldId(name)]

\* C14: createBlueprint on an unknown or hidden field returns an empty
\* blueprint: no generation guard, no posting cursor, no hits.
C14_EmptyWhenUnknownOrHidden ==
    [][ \A s \in Slots, name \in FieldNames, t \in Terms :
            (createBlueprint(s, name, t) /\ UnknownOrHidden(name)) =>
                /\ blueprints'[s].state = "empty"
                /\ blueprints'[s].gen = -1
                /\ blueprints'[s].ref = 0
                /\ blueprints'[s].hits = {}
                /\ Guards(1)' = Guards(1) /\ Guards(2)' = Guards(2) ]_vars

\* C14 witness: an empty blueprint was returned for a hidden field whose
\* committed postings hold documents.
C14_Witness ==
    \E s \in Slots :
        /\ blueprints[s].state = "empty"
        /\ blueprints[s].field \in Fields
        /\ hiddenFields[blueprints[s].field]
        /\ \E t \in Terms :
               LET fi == fieldIndexes[blueprints[s].field]
               IN  ReadPosting(fi, t, findFrozen(fi, t)) # {}

\* C15: createBlueprint never reads _hiddenFields while pruneRemovedFields
\* holds _lock, and never builds a blueprint for a field that the pruned
\* schema of that moment no longer has.
C15_PruningStateUnderMutex ==
    \A s \in Slots :
        blueprints[s].state # "none" => (~blueprints[s].raced /\ ~blueprints[s].stale)

Inserted == {d \in Docs : docs[d] # NoDocument}

\* C18: the live document count is the number of indexed ids, which are
\* the ids inserted while unfrozen and not removed since; it is never
\* negative.
C18_CountIsIndexed ==
    /\ numDocs = Cardinality(indexedDocs)
    /\ indexedDocs = Inserted
    /\ numDocs >= 0

\* C18 witness: after an insert, a remove of another id, a commit, a
\* freeze, a rejected call and a prune, one document is counted.
C18_Witness ==
    /\ frozen /\ commitCount >= 1 /\ pruneCount >= 1 /\ ~lock
    /\ Len(ops) = 2
    /\ ops[1].kind = "insert" /\ ops[1].accepted
    /\ ops[2].kind = "remove" /\ ~ops[2].accepted
    /\ numDocs = 1

\* the completion token of commit k has been released: commit k was called
\* and no reference to its token is left
Released(k) == k <= commitCount /\ onWriteDone[k] = 0

\* C17: the completion token of a commit is not released before that
\* commit has called pushDocuments and all the push-stage work it queued
\* has finished, and it is released in the end.
C17_TokenRetained ==
    /\ [](\A k \in 1..MaxCommits : Released(k) => PushDone(k))
    /\ \A k \in 1..MaxCommits : (k <= commitCount) ~> Released(k)

\* C17 witness: the second commit has returned, its push-stage work is
\* still queued and holds its token, and the first commit's is released.
C17_Witness ==
    /\ pc = "idle"
    /\ commitCount = 2
    /\ Released(1)
    /\ onWriteDone[2] = Cardinality(Fields)
    /\ ~PushDone(2)

\* invert-stage work of call o is queued
InvertQueued(o) ==
    \E f \in Fields : \E n \in 1..Len(invertThreads[f]) : invertThreads[f][n].op = o

\* push-stage work of commit k is queued
PushQueued(k) ==
    \E f \in Fields : \E n \in 1..Len(pushThreads[f]) : pushThreads[f][n].commit = k

\* C20: every invert-stage and push-stage work item queued completes, a
\* destructor that was entered finishes, and when it has, no work item is
\* queued on either executor.
C20_RunsToCompletion ==
    /\ \A o \in OpIds : InvertQueued(o) ~> ~InvertQueued(o)
    /\ \A k \in 1..MaxCommits : PushQueued(k) ~> ~PushQueued(k)
    /\ (pc = "dtor_sync_invert") ~> (pc = "destroyed")
    /\ [](pc = "destroyed" => (Synced(invertThreads) /\ Synced(pushThreads)))

\* C20 witness: the destructor is waiting for push-stage work of a commit
\* that had returned.
C20_Witness ==
    /\ pc = "dtor_sync_push"
    /\ ~Synced(pushThreads)
    /\ commitCount >= 1

============================================================================
